---- MODULE Spec2Model ----
(***************************************************************************)
(* Model of the two icon generators of client/public/icons:                *)
(*   create_uniloop_icons.py  (logo-based generator, prefix L_)            *)
(*   create_icon.py           (procedural generator, prefix P_)            *)
(* Both are run from the icons directory and write 144.png, 192.png and    *)
(* 512.png there.  Images are kept as exact symbolic descriptions (size,   *)
(* fill colour, alpha pattern, drawing and paste operations) and a pixel   *)
(* is computed from the description by the operators below.  Calls to      *)
(* print are taken to succeed (standard output accepts the text).          *)
(***************************************************************************)
EXTENDS Integers, Sequences, FiniteSets, TLC

(* ------------------------------ bounds --------------------------------- *)
\* number of script runs observed in one behaviour
MaxRuns == 2

(* --------------------------- small helpers ----------------------------- *)
Max2(a, b) == IF a >= b THEN a ELSE b

Abs(a) == IF a >= 0 THEN a ELSE 0 - a

(* ------------------------- files and images ---------------------------- *)
\* create_uniloop_icons.py line 26
sizes == <<144, 192, 512>>

\* f"{size}.png"
FileNameOf(size) == ToString(size) \o ".png"

OutNames == {"144.png", "192.png", "512.png"}

NoFile == [kind |-> "absent"]

\* a file whose write did not complete
Partial == [kind |-> "partial"]

\* an icon left in the directory by something else, before any run
Stale == [kind |-> "image", mode |-> "RGB", width |-> 64, height |-> 64,
          fill |-> <<200, 0, 0>>, ops |-> <<>>, resampled |-> <<>>]

Undef == [kind |-> "undef"]

\* Image.new(mode, (w, h), color)
ImageNew(mode, w, h, color) ==
  [kind |-> "image", mode |-> mode, width |-> w, height |-> h,
   fill |-> color, ops |-> <<>>, resampled |-> <<>>]

\* img.resize((w, h), Image.LANCZOS): a new image of the requested size,
\* resampled from the whole of the original
ImageResize(im, w, h) ==
  [im EXCEPT !.width = w, !.height = h,
             !.resampled = Append(@, <<"LANCZOS", im.width, im.height>>)]

(* A raster is an image read from a file (or derived from one): its colour  *)
(* is one RGB value, its alpha channel a pattern that does not depend on    *)
(* the scale.  AlphaAt gives the alpha value of pixel (i, j).               *)
AlphaPatterns == {"opaque", "clear", "bands"}

AlphaAt(pattern, w, h, i, j) ==
  CASE pattern = "opaque" -> 255
    [] pattern = "clear"  -> 0
    [] pattern = "bands"  -> IF 3 * i < w THEN 0
                             ELSE IF 3 * i < 2 * w THEN 128 ELSE 255

Raster(mode, w, h, rgb, pattern) ==
  [kind |-> "raster", mode |-> mode, width |-> w, height |-> h,
   rgb |-> rgb, alpha |-> pattern]

\* logo.convert('RGBA'): an image without an alpha channel becomes opaque,
\* a grey image with alpha (LA) keeps its alpha
ConvertRGBA(im) ==
  [im EXCEPT !.mode = "RGBA",
             !.alpha = IF im.mode = "RGB" THEN "opaque" ELSE im.alpha]

\* the logo box rounded to the nearest integer: round(size * 0.7)
LogoSizeOf_Rounded(size) == (size * 7 + 5) \div 10

\* int(size * 0.7)
LogoSizeOf(size) == (size * 7) \div 10

(* Image.thumbnail((box, box), LANCZOS): Pillow's preserve_aspect_ratio and *)
(* round_aspect.  Nothing happens when the image already fits; otherwise    *)
(* the longer edge becomes box and the other edge is the floor or the       *)
(* ceiling of the scaled value, whichever keeps the aspect ratio closer     *)
(* (the floor on a tie, min() returning its first argument), and at least 1.*)
(* Pillow computes this in floating point; the integer arithmetic below     *)
(* gives the same result except when floor and ceiling are exactly equally  *)
(* close, so the inputs tried avoid such dimensions.                        *)
\* round_aspect(y * aspect, key=lambda n: abs(aspect - n / y)), aspect = w/h
RoundAspectX(w, h, y) ==
  LET fl == (y * w) \div h
      ce == IF (y * w) % h = 0 THEN fl ELSE fl + 1
      key(n) == Abs(w * y - n * h)
  IN  Max2(IF key(fl) <= key(ce) THEN fl ELSE ce, 1)

\* round_aspect(x / aspect, key=lambda n: 0 if n == 0 else abs(aspect - x / n))
RoundAspectY(w, h, x) ==
  LET fl == (x * h) \div w
      ce == IF (x * h) % w = 0 THEN fl ELSE fl + 1
      num(n) == Abs(w * n - x * h)
  IN  Max2(IF fl = 0 \/ num(fl) * ce <= num(ce) * fl THEN fl ELSE ce, 1)

ThumbnailSize(w, h, box) ==
  IF box >= w /\ box >= h THEN <<w, h>>
  ELSE IF h >= w THEN <<RoundAspectX(w, h, box), box>>
       ELSE <<box, RoundAspectY(w, h, box)>>

Thumbnail(im, box) ==
  LET sz == ThumbnailSize(im.width, im.height, box)
  IN  [im EXCEPT !.width = sz[1], !.height = sz[2]]

\* logo_resized.split()[-1]
AlphaBand(im) ==
  [kind |-> "band", mode |-> "L", width |-> im.width, height |-> im.height,
   alpha |-> im.alpha]

\* Image.new('RGBA', size, (255, 255, 255, 255)) followed by putalpha(alpha)
WhiteWithAlpha(w, h, band) ==
  Raster("RGBA", w, h, <<255, 255, 255>>, band.alpha)

\* pixel (i, j) of a raster, as (r, g, b, a)
RasterPixel(im, i, j) ==
  <<im.rgb[1], im.rgb[2], im.rgb[3],
    AlphaAt(im.alpha, im.width, im.height, i, j)>>

\* Pillow's DIV255 and BLEND8 (Paste.c): rounded (dst*(255-m) + src*m) / 255
Div255(a) == LET tmp == a + 128 IN ((tmp \div 256) + tmp) \div 256

Blend8(m, dst, src) == Div255(dst * (255 - m) + src * m)

\* icon.paste(im, (x, y), mask): recorded as an operation on the canvas
PasteOp(im, x, y, mask) ==
  [op |-> "paste", im |-> im, x |-> x, y |-> y, mask |-> mask]

ImagePaste(canvas, im, x, y, mask) ==
  [canvas EXCEPT !.ops = Append(@, PasteOp(im, x, y, mask))]

\* the effect of one paste operation on the pixel (px, py) whose value is c:
\* inside the pasted box every band is blended through the mask's alpha
PastePixel(o, c, px, py) ==
  IF  /\ o.x <= px /\ px < o.x + o.im.width
      /\ o.y <= py /\ py < o.y + o.im.height
  THEN LET s == RasterPixel(o.im, px - o.x, py - o.y)
           m == RasterPixel(o.mask, px - o.x, py - o.y)[4]
       IN  <<Blend8(m, c[1], s[1]), Blend8(m, c[2], s[2]),
             Blend8(m, c[3], s[3]), Blend8(m, c[4], s[4])>>
  ELSE c

RECURSIVE ApplyOps(_, _, _, _)
ApplyOps(ops, c, px, py) ==
  IF ops = <<>> THEN c
  ELSE ApplyOps(Tail(ops), PastePixel(Head(ops), c, px, py), px, py)

\* pixel (px, py) of a canvas made of a fill colour and paste operations
IconPixel(canvas, px, py) == ApplyOps(canvas.ops, canvas.fill, px, py)

(* ------------------------------ inputs --------------------------------- *)
Red == <<200, 30, 30>>

Blue == <<20, 40, 220>>

Grey == <<90, 90, 90>>

\* the source logos tried: square and larger than every box, square and
\* smaller than every box, wide, tall, without alpha channel, grey with alpha
Sources ==
  { Raster("RGBA", 1000, 1000, Red, "opaque"),
    Raster("RGBA", 99, 99, Blue, "bands"),
    Raster("RGBA", 400, 200, Red, "bands"),
    Raster("RGBA", 120, 300, Blue, "clear"),
    Raster("RGB", 1000, 3, Blue, "none"),
    Raster("LA", 260, 400, Grey, "bands") }

\* widths and heights tried when only the geometry matters: around 1, around
\* each of the boxes 100, 134 and 358, and beyond the largest canvas
Edges == {1, 2, 3, 50, 99, 100, 101, 134, 135, 203, 357, 358, 359, 401, 512, 1001}

GeomSources == {Raster("RGBA", w, h, Red, "opaque") : w \in Edges, h \in Edges}

(* ------------------------------- state --------------------------------- *)
VARIABLES
  disk,           \* the icons directory: output file name -> content
  source,         \* content of uniloop-logo-source.png, or NoFile
  fontAvailable,  \* whether DejaVuSans-Bold.ttf can be loaded
  budget,         \* runs still to be started
  script,         \* the script being run: "none", "logo" or "procedural"
  pc,             \* position in the running script
  stdout,         \* messages printed by the current run
  result,         \* outcome of the current run
  \* locals of create_uniloop_icons
  logo, it, size, icon, logo_size, padding, logo_resized, alpha, logo_white,
  logo_x, logo_y,
  \* globals of create_icon.py
  img, font, img_144, img_large,
  \* history, for stating the properties
  saves,          \* <<file name, succeeded, image>> for every save of the run
  failedAt,       \* position of the call of the current run that raised
  startDisk,      \* the directory when the current run started
  prev            \* script, cleanliness and final directory of the last run

locals == <<logo, it, size, icon, logo_size, padding, logo_resized, alpha,
            logo_white, logo_x, logo_y>>

globals == <<img, font, img_144, img_large>>

env == <<source, fontAvailable>>

hist == <<saves, failedAt, startDisk, prev>>

vars == <<disk, source, fontAvailable, budget, script, pc, stdout, result,
          logo, it, size, icon, logo_size, padding, logo_resized, alpha,
          logo_white, logo_x, logo_y, img, font, img_144, img_large,
          saves, failedAt, startDisk, prev>>

NoPrev == [script |-> "none", clean |-> FALSE, disk |-> [f \in OutNames |-> NoFile]]

InitCommon ==
  /\ script = "none" /\ pc = "idle" /\ stdout = <<>> /\ result = "none"
  /\ logo = Undef /\ it = 0 /\ size = 0 /\ icon = Undef /\ logo_size = 0
  /\ padding = 0 /\ logo_resized = Undef /\ alpha = Undef
  /\ logo_white = Undef /\ logo_x = 0 /\ logo_y = 0
  /\ img = Undef /\ font = "none" /\ img_144 = Undef /\ img_large = Undef
  /\ saves = <<>> /\ failedAt = "none" /\ prev = NoPrev

\* the directory before the first run is empty or holds icons made by
\* something else
Init ==
  /\ InitCommon
  /\ source \in Sources \cup {NoFile}
  /\ fontAvailable \in BOOLEAN
  /\ disk \in {[f \in OutNames |-> NoFile], [f \in OutNames |-> Stale]}
  /\ startDisk = disk
  /\ budget = MaxRuns

(* ----------------------------- running --------------------------------- *)
\* python create_uniloop_icons.py / python create_icon.py
StartRun(s) ==
  /\ pc = "idle" /\ budget > 0
  /\ budget' = budget - 1
  /\ script' = s
  /\ pc' = IF s = "logo" THEN "L_check" ELSE "P_new"
  /\ stdout' = <<>> /\ result' = "none" /\ saves' = <<>> /\ failedAt' = "none"
  /\ startDisk' = disk
  /\ UNCHANGED <<disk, env, locals, globals, prev>>

\* the process ends: its memory is gone, the directory stays
Exit ==
  /\ pc = "exit"
  /\ prev' = [script |-> script,
              clean |-> failedAt = "none",
              disk |-> disk]
  /\ pc' = "idle" /\ script' = "none"
  /\ logo' = Undef /\ it' = 0 /\ size' = 0 /\ icon' = Undef
  /\ logo_size' = 0 /\ padding' = 0 /\ logo_resized' = Undef
  /\ alpha' = Undef /\ logo_white' = Undef /\ logo_x' = 0 /\ logo_y' = 0
  /\ img' = Undef /\ font' = "none" /\ img_144' = Undef /\ img_large' = Undef
  /\ UNCHANGED <<disk, env, budget, stdout, result, saves, failedAt, startDisk>>

\* what a save that raises can leave behind: the file as it was (the open
\* failed), no file (the partial file was removed) or a partial file
FailedSave(old) == {old, NoFile, Partial}

(* ------------------- create_uniloop_icons.py --------------------------- *)
\* a call inside the try block raises: control goes to the except clause
L_Raise ==
  /\ failedAt' = pc
  /\ pc' = "L_except"

\* L_Check reporting success when the source is missing
L_Check_ReturnsTrue ==
  /\ pc = "L_check"
  /\ IF source = NoFile
     THEN /\ stdout' = Append(stdout, "Source logo not found")
          /\ result' = "True"
          /\ pc' = "exit"
     ELSE /\ pc' = "L_open"
          /\ UNCHANGED <<stdout, result>>
  /\ UNCHANGED <<disk, env, budget, script, locals, globals, hist>>

\* lines 10-14: the existence check
L_Check ==
  /\ pc = "L_check"
  /\ IF source = NoFile
     THEN /\ stdout' = Append(stdout, "Source logo not found")
          /\ result' = "False"
          /\ pc' = "exit"
     ELSE /\ pc' = "L_open"
          /\ UNCHANGED <<stdout, result>>
  /\ UNCHANGED <<disk, env, budget, script, locals, globals, hist>>

\* lines 18-19: Image.open
L_Open ==
  /\ pc = "L_open"
  /\ \/ /\ logo' = source
        /\ stdout' = Append(stdout, "Loaded source logo")
        /\ pc' = "L_convert"
        /\ UNCHANGED failedAt
     \/ /\ L_Raise
        /\ UNCHANGED <<logo, stdout>>
  /\ UNCHANGED <<disk, env, budget, script, result, it, size, icon,
                 logo_size, padding, logo_resized, alpha, logo_white,
                 logo_x, logo_y, globals, saves, startDisk, prev>>

\* lines 22-26: convert to RGBA if needed
L_Convert ==
  /\ pc = "L_convert"
  /\ \/ /\ logo' = IF logo.mode # "RGBA" THEN ConvertRGBA(logo) ELSE logo
        /\ pc' = "L_for"
        /\ UNCHANGED failedAt
     \/ /\ logo.mode # "RGBA"
        /\ L_Raise
        /\ UNCHANGED logo
  /\ UNCHANGED <<disk, env, budget, script, stdout, result, it, size, icon,
                 logo_size, padding, logo_resized, alpha, logo_white,
                 logo_x, logo_y, globals, saves, startDisk, prev>>

\* line 28: for size in sizes
L_For ==
  /\ pc = "L_for"
  /\ IF it < Len(sizes)
     THEN /\ it' = it + 1
          /\ size' = sizes[it + 1]
          /\ pc' = "L_new"
     ELSE /\ pc' = "L_done"
          /\ UNCHANGED <<it, size>>
  /\ UNCHANGED <<disk, env, budget, script, stdout, result, logo, icon,
                 logo_size, padding, logo_resized, alpha, logo_white,
                 logo_x, logo_y, globals, hist>>

\* L_New making the canvas as large as the logo box
L_New_LogoSized ==
  /\ pc = "L_new"
  /\ icon' = ImageNew("RGBA", LogoSizeOf(size), LogoSizeOf(size),
                      <<0, 0, 0, 255>>)
  /\ logo_size' = LogoSizeOf(size)
  /\ padding' = (size - LogoSizeOf(size)) \div 2
  /\ pc' = "L_resize"
  /\ UNCHANGED <<disk, env, budget, script, stdout, result, logo, it, size,
                 logo_resized, alpha, logo_white, logo_x, logo_y, globals,
                 hist>>

\* L_New drawing on the icon already in the directory
L_New_ReusesFile ==
  /\ pc = "L_new"
  /\ icon' = IF disk[FileNameOf(size)].kind = "image"
                /\ disk[FileNameOf(size)].width = size
             THEN [disk[FileNameOf(size)] EXCEPT !.mode = "RGBA"]
             ELSE ImageNew("RGBA", size, size, <<0, 0, 0, 255>>)
  /\ logo_size' = LogoSizeOf(size)
  /\ padding' = (size - LogoSizeOf(size)) \div 2
  /\ pc' = "L_resize"
  /\ UNCHANGED <<disk, env, budget, script, stdout, result, logo, it, size,
                 logo_resized, alpha, logo_white, logo_x, logo_y, globals,
                 hist>>

\* lines 30-34: the black canvas, the logo box and the padding
L_New ==
  /\ pc = "L_new"
  /\ \/ /\ icon' = ImageNew("RGBA", size, size, <<0, 0, 0, 255>>)
        /\ logo_size' = LogoSizeOf(size)
        /\ padding' = (size - LogoSizeOf(size)) \div 2
        /\ pc' = "L_resize"
        /\ UNCHANGED failedAt
     \/ /\ L_Raise
        /\ UNCHANGED <<icon, logo_size, padding>>
  /\ UNCHANGED <<disk, env, budget, script, stdout, result, logo, it, size,
                 logo_resized, alpha, logo_white, logo_x, logo_y, globals,
                 saves, startDisk, prev>>

\* L_Resize applying thumbnail to the logo itself
L_Resize_InPlace ==
  /\ pc = "L_resize"
  /\ logo' = Thumbnail(logo, logo_size)
  /\ logo_resized' = Thumbnail(logo, logo_size)
  /\ pc' = "L_white"
  /\ UNCHANGED <<disk, env, budget, script, stdout, result, it, size,
                 icon, logo_size, padding, alpha, logo_white, logo_x, logo_y,
                 globals, hist>>

\* lines 37-38: thumbnail of a copy of the logo
L_Resize ==
  /\ pc = "L_resize"
  /\ \/ /\ logo_resized' = Thumbnail(logo, logo_size)
        /\ pc' = "L_white"
        /\ UNCHANGED failedAt
     \/ /\ L_Raise
        /\ UNCHANGED logo_resized
  /\ UNCHANGED <<disk, env, budget, script, stdout, result, logo, it, size,
                 icon, logo_size, padding, alpha, logo_white, logo_x, logo_y,
                 globals, saves, startDisk, prev>>

\* L_White keeping the colours of the resized logo
L_White_KeepsColour ==
  /\ pc = "L_white"
  /\ alpha' = AlphaBand(logo_resized)
  /\ logo_white' = logo_resized
  /\ pc' = "L_paste"
  /\ UNCHANGED <<disk, env, budget, script, stdout, result, logo, it, size,
                 icon, logo_size, padding, logo_resized, logo_x, logo_y,
                 globals, hist>>

\* lines 42-49: the white image carrying the logo's alpha channel
L_White ==
  /\ pc = "L_white"
  /\ \/ /\ alpha' = AlphaBand(logo_resized)
        /\ logo_white' = WhiteWithAlpha(logo_resized.width,
                                        logo_resized.height,
                                        AlphaBand(logo_resized))
        /\ pc' = "L_paste"
        /\ UNCHANGED failedAt
     \/ /\ L_Raise
        /\ UNCHANGED <<alpha, logo_white>>
  /\ UNCHANGED <<disk, env, budget, script, stdout, result, logo, it, size,
                 icon, logo_size, padding, logo_resized, logo_x, logo_y,
                 globals, saves, startDisk, prev>>

\* L_Paste placing the logo at the padding instead of centring it
L_Paste_AtPadding ==
  /\ pc = "L_paste"
  /\ logo_x' = padding
  /\ logo_y' = padding
  /\ icon' = ImagePaste(icon, logo_white, padding, padding, logo_white)
  /\ pc' = "L_save"
  /\ UNCHANGED <<disk, env, budget, script, stdout, result, logo, it, size,
                 logo_size, padding, logo_resized, alpha, logo_white,
                 globals, hist>>

\* lines 52-56: centre and paste
L_Paste ==
  /\ pc = "L_paste"
  /\ \/ /\ logo_x' = (size - logo_white.width) \div 2
        /\ logo_y' = (size - logo_white.height) \div 2
        /\ icon' = ImagePaste(icon, logo_white,
                              (size - logo_white.width) \div 2,
                              (size - logo_white.height) \div 2, logo_white)
        /\ pc' = "L_save"
        /\ UNCHANGED failedAt
     \/ /\ L_Raise
        /\ UNCHANGED <<logo_x, logo_y, icon>>
  /\ UNCHANGED <<disk, env, budget, script, stdout, result, logo, it, size,
                 logo_size, padding, logo_resized, alpha, logo_white,
                 globals, saves, startDisk, prev>>

\* L_Save going on with the next size when the save raises
L_Save_Continue ==
  /\ pc = "L_save"
  /\ LET filename == FileNameOf(size) IN
     \/ /\ disk' = [disk EXCEPT ![filename] = icon]
        /\ saves' = Append(saves, <<filename, TRUE, icon>>)
     \/ /\ \E left \in {disk[filename], NoFile, Partial} :
             disk' = [disk EXCEPT ![filename] = left]
        /\ saves' = Append(saves, <<filename, FALSE, icon>>)
  /\ pc' = "L_print"
  /\ UNCHANGED <<env, budget, script, stdout, result, locals, globals,
                 failedAt, startDisk, prev>>

\* lines 59-60: icon.save(f"{size}.png", "PNG", optimize=True)
L_Save ==
  /\ pc = "L_save"
  /\ LET filename == FileNameOf(size) IN
     \/ /\ disk' = [disk EXCEPT ![filename] = icon]
        /\ saves' = Append(saves, <<filename, TRUE, icon>>)
        /\ pc' = "L_print"
        /\ UNCHANGED failedAt
     \/ /\ \E left \in FailedSave(disk[filename]) :
             disk' = [disk EXCEPT ![filename] = left]
        /\ saves' = Append(saves, <<filename, FALSE, icon>>)
        /\ L_Raise
  /\ UNCHANGED <<env, budget, script, stdout, result, locals, globals,
                 startDisk, prev>>

\* line 61, and back to the head of the loop
L_Print ==
  /\ pc = "L_print"
  /\ stdout' = Append(stdout, "Created " \o FileNameOf(size))
  /\ pc' = "L_for"
  /\ UNCHANGED <<disk, env, budget, script, result, locals, globals, hist>>

\* lines 63-68
L_Done ==
  /\ pc = "L_done"
  /\ stdout' = Append(stdout, "All UniLoop PWA icons created successfully")
  /\ result' = "True"
  /\ pc' = "exit"
  /\ UNCHANGED <<disk, env, budget, script, locals, globals, hist>>

\* L_Except removing what the run has written
L_Except_Rollback ==
  /\ pc = "L_except"
  /\ stdout' = Append(stdout, "Error creating icons")
  /\ result' = "False"
  /\ disk' = startDisk
  /\ pc' = "exit"
  /\ UNCHANGED <<env, budget, script, locals, globals, hist>>

\* lines 70-72: except Exception
L_Except ==
  /\ pc = "L_except"
  /\ stdout' = Append(stdout, "Error creating icons")
  /\ result' = "False"
  /\ pc' = "exit"
  /\ UNCHANGED <<disk, env, budget, script, locals, globals, hist>>

(* --------------------------- create_icon.py ---------------------------- *)
\* a call outside any try block raises: the interpreter prints a traceback
\* and the process ends
P_Raise ==
  /\ failedAt' = pc
  /\ result' = "traceback"
  /\ pc' = "exit"

\* lines 5-6: the 192x192 canvas
P_New ==
  /\ pc = "P_new"
  /\ \/ /\ img' = ImageNew("RGB", 192, 192, "#1565C0")
        /\ pc' = "P_shapes"
        /\ UNCHANGED <<failedAt, result>>
     \/ /\ P_Raise
        /\ UNCHANGED img
  /\ UNCHANGED <<disk, env, budget, script, stdout, locals, font, img_144,
                 img_large, saves, startDisk, prev>>

\* lines 9-10: the white ellipse and rectangle
P_Shapes ==
  /\ pc = "P_shapes"
  /\ \/ /\ img' = [img EXCEPT !.ops = @ \o
                     << [op |-> "ellipse", box |-> <<64, 32, 128, 96>>,
                         fill |-> "white"],
                        [op |-> "rectangle", box |-> <<72, 108, 120, 156>>,
                         fill |-> "white"] >>]
        /\ pc' = "P_font"
        /\ UNCHANGED <<failedAt, result>>
     \/ /\ P_Raise
        /\ UNCHANGED img
  /\ UNCHANGED <<disk, env, budget, script, stdout, locals, font, img_144,
                 img_large, saves, startDisk, prev>>

\* P_Font without the try/except around the font loading
P_Font_NoFallback ==
  /\ pc = "P_font"
  /\ IF fontAvailable
     THEN /\ font' = "DejaVuSans-Bold 16"
          /\ pc' = "P_text"
          /\ UNCHANGED <<failedAt, result>>
     ELSE /\ failedAt' = pc
          /\ result' = "traceback"
          /\ pc' = "exit"
          /\ UNCHANGED font
  /\ UNCHANGED <<disk, env, budget, script, stdout, locals, img,
                 img_144, img_large, saves, startDisk, prev>>

\* lines 12-16: the bold font, or the default one when loading it raises
P_Font ==
  /\ pc = "P_font"
  /\ font' = IF fontAvailable THEN "DejaVuSans-Bold 16" ELSE "default"
  /\ pc' = "P_text"
  /\ UNCHANGED <<disk, env, budget, script, stdout, result, locals, img,
                 img_144, img_large, hist>>

\* line 18: the text
P_Text ==
  /\ pc = "P_text"
  /\ \/ /\ img' = [img EXCEPT !.ops = Append(@,
                     [op |-> "text", xy |-> <<96, 170>>, text |-> "CC",
                      fill |-> "white", anchor |-> "mm", font |-> font])]
        /\ pc' = "P_save192"
        /\ UNCHANGED <<failedAt, result>>
     \/ /\ P_Raise
        /\ UNCHANGED img
  /\ UNCHANGED <<disk, env, budget, script, stdout, locals, font, img_144,
                 img_large, saves, startDisk, prev>>

\* im.save(name) at position from, going to position to
P_SaveAs(from, to, im, name) ==
  /\ pc = from
  /\ \/ /\ disk' = [disk EXCEPT ![name] = im]
        /\ saves' = Append(saves, <<name, TRUE, im>>)
        /\ pc' = to
        /\ UNCHANGED <<failedAt, result>>
     \/ /\ \E left \in FailedSave(disk[name]) :
             disk' = [disk EXCEPT ![name] = left]
        /\ saves' = Append(saves, <<name, FALSE, im>>)
        /\ P_Raise
  /\ UNCHANGED <<env, budget, script, stdout, locals, globals, startDisk,
                 prev>>

\* line 19
P_Save192 == P_SaveAs("P_save192", "P_resize144", img, "192.png")

\* line 22
P_Resize144 ==
  /\ pc = "P_resize144"
  /\ \/ /\ img_144' = ImageResize(img, 144, 144)
        /\ pc' = "P_save144"
        /\ UNCHANGED <<failedAt, result>>
     \/ /\ P_Raise
        /\ UNCHANGED img_144
  /\ UNCHANGED <<disk, env, budget, script, stdout, locals, img, font,
                 img_large, saves, startDisk, prev>>

\* line 23
P_Save144 == P_SaveAs("P_save144", "P_resize512", img_144, "144.png")

\* line 26
P_Resize512 ==
  /\ pc = "P_resize512"
  /\ \/ /\ img_large' = ImageResize(img, 512, 512)
        /\ pc' = "P_save512"
        /\ UNCHANGED <<failedAt, result>>
     \/ /\ P_Raise
        /\ UNCHANGED img_large
  /\ UNCHANGED <<disk, env, budget, script, stdout, locals, img, font,
                 img_144, saves, startDisk, prev>>

\* line 27
P_Save512 == P_SaveAs("P_save512", "P_print", img_large, "512.png")

\* line 29
P_Print ==
  /\ pc = "P_print"
  /\ stdout' = Append(stdout, "Icons created successfully")
  /\ result' = "exit0"
  /\ pc' = "exit"
  /\ UNCHANGED <<disk, env, budget, script, locals, globals, hist>>

(* --------------------------- specification ----------------------------- *)
Next ==
  \/ StartRun("logo")
  \/ StartRun("procedural")
  \/ Exit
  \/ L_Check \/ L_Open \/ L_Convert \/ L_For \/ L_New \/ L_Resize
  \/ L_White \/ L_Paste \/ L_Save \/ L_Print \/ L_Done \/ L_Except
  \/ P_New \/ P_Shapes \/ P_Font \/ P_Text \/ P_Save192 \/ P_Resize144
  \/ P_Save144 \/ P_Resize512 \/ P_Save512 \/ P_Print

Spec == Init /\ [][Next]_vars

TypeOK ==
  /\ pc \in {"idle", "exit", "L_check", "L_open", "L_convert", "L_for",
             "L_new", "L_resize", "L_white", "L_paste", "L_save", "L_print",
             "L_done", "L_except", "P_new", "P_shapes", "P_font", "P_text",
             "P_save192", "P_resize144", "P_save144", "P_resize512",
             "P_save512", "P_print"}
  /\ budget \in 0..MaxRuns

\* one run only, started in an empty directory: the specification under
\* which the written icons are examined pixel by pixel
InitPix ==
  /\ InitCommon
  /\ source \in Sources \cup {NoFile}
  /\ fontAvailable \in BOOLEAN
  /\ disk = [f \in OutNames |-> NoFile]
  /\ startDisk = disk
  /\ budget = 1

SpecPix == InitPix /\ [][Next]_vars

\* one run over a wide range of source dimensions
InitGeom ==
  /\ InitCommon
  /\ source \in GeomSources \cup {NoFile}
  /\ fontAvailable \in BOOLEAN
  /\ disk = [f \in OutNames |-> NoFile]
  /\ startDisk = disk
  /\ budget = 1

SpecGeom == InitGeom /\ [][Next]_vars

(* ------------------------------ properties ----------------------------- *)
IconSizes == {sizes[k] : k \in 1..Len(sizes)}

\* the saves of the current run that succeeded
Written == {k \in 1..Len(saves) : saves[k][2]}

\* the loop of create_uniloop_icons, from the canvas to the message
InLoop == pc \in {"L_new", "L_resize", "L_white", "L_paste", "L_save", "L_print"}

\* C1: when uniloop-logo-source.png does not exist, create_uniloop_icons
\* returns False without raising and no file of the directory is created
\* or modified.
C1_MissingSource ==
  (script = "logo" /\ source = NoFile) =>
     /\ disk = startDisk
     /\ saves = <<>>
     /\ failedAt = "none"
     /\ pc \in {"L_check", "exit"}
     /\ (pc = "exit" => result = "False")

C1_Witness ==
  /\ script = "logo" /\ source = NoFile /\ pc = "exit"
  /\ startDisk["144.png"] = Stale

\* C2: an exception raised after the existence check is caught, the function
\* returns False, and every file the run had written before is still on
\* disk with the content the run wrote.
C2_ExceptionCaught ==
  script = "logo" =>
     /\ \A k \in Written : disk[saves[k][1]] = saves[k][3]
     /\ (failedAt # "none" =>
            /\ pc \in {"L_except", "exit"}
            /\ (pc = "exit" => result = "False"))

C2_Witness ==
  /\ script = "logo" /\ pc = "exit" /\ failedAt = "L_save"
  /\ Len(saves) = 3 /\ Written = {1, 2}

\* C3: no retry and no partial success: the sizes are attempted at most once
\* each in the order 144, 192, 512, nothing is written after a failure, and
\* the function returns True exactly when all three files were written.
C3_NoRetryNoPartial ==
  script = "logo" =>
     /\ Len(saves) <= Len(sizes)
     /\ \A k \in 1..Len(saves) : saves[k][1] = FileNameOf(sizes[k])
     /\ \A k \in 1..Len(saves) : k < Len(saves) => saves[k][2]
     /\ (result = "True" => pc = "exit")
     /\ (pc = "exit" => (result = "True" <=> Written = 1..Len(sizes)))

C3_Witness ==
  /\ script = "logo" /\ pc = "exit" /\ result = "False"
  /\ Len(saves) = 2 /\ Written = {1}

\* C4: for both scripts and every size S, a written file "S.png" holds an
\* image exactly S pixels wide and S pixels high.
C4_Dimensions ==
  \A k \in Written : \A S \in IconSizes :
     saves[k][1] = FileNameOf(S) =>
        /\ disk[saves[k][1]].kind = "image"
        /\ disk[saves[k][1]].width = S
        /\ disk[saves[k][1]].height = S

C4_Witness ==
  /\ script = "logo" /\ source # NoFile /\ source.width # source.height
  /\ Written = {1, 2, 3}

\* the margins around the logo pasted on the canvas
MarginLeft == icon.ops[1].x

MarginRight == icon.width - (icon.ops[1].x + icon.ops[1].im.width)

MarginTop == icon.ops[1].y

MarginBottom == icon.height - (icon.ops[1].y + icon.ops[1].im.height)

Pasted == script = "logo" /\ pc \in {"L_save", "L_print"}

\* C5 (as stated): the pasted logo is at most floor(0.7*S) wide and high and
\* the four margins around it are equal.
C5_EqualMargins ==
  Pasted =>
     /\ icon.ops[1].im.width <= (7 * size) \div 10
     /\ icon.ops[1].im.height <= (7 * size) \div 10
     /\ MarginLeft = MarginRight
     /\ MarginRight = MarginTop
     /\ MarginTop = MarginBottom

\* C5 (amended): the pasted logo is at most floor(0.7*S) wide and high and is
\* centred on each axis separately: the right margin is the left margin or
\* one pixel more, the bottom margin the top margin or one pixel more, and
\* no margin is smaller than floor((S - floor(0.7*S)) / 2).
C5_Centred ==
  Pasted =>
     /\ icon.ops[1].im.width <= (7 * size) \div 10
     /\ icon.ops[1].im.height <= (7 * size) \div 10
     /\ MarginRight - MarginLeft \in {0, 1}
     /\ MarginBottom - MarginTop \in {0, 1}
     /\ MarginLeft >= (size - (7 * size) \div 10) \div 2
     /\ MarginTop >= (size - (7 * size) \div 10) \div 2

C5_Witness ==
  /\ Pasted /\ size = 144 /\ source.width = 99 /\ source.height = 99
  /\ MarginLeft = 22 /\ MarginRight = 23

\* C8: a second run of the same script with the same inputs leaves the three
\* files as the first run left them, whatever they held before the first.
C8_Idempotent ==
  (/\ pc = "exit" /\ failedAt = "none"
   /\ prev.script = script /\ prev.clean) => disk = prev.disk

C8_Witness ==
  /\ pc = "exit" /\ script = "logo" /\ result = "True"
  /\ prev.script = "logo" /\ prev.clean
  /\ source # NoFile /\ source.alpha = "bands"

BoldFont == "DejaVuSans-Bold 16"

\* C9: in the procedural generator a font that cannot be loaded is replaced
\* by the default font and the script goes on to write 192.png, 144.png and
\* 512.png (the last two resampled from the 192 canvas); any other failure
\* ends the script and no later file is written.
C9_FontFallback ==
  script = "procedural" =>
     /\ failedAt # "P_font"
     /\ (pc \in {"P_text", "P_save192", "P_resize144", "P_save144",
                 "P_resize512", "P_save512", "P_print"} =>
           font = IF fontAvailable THEN BoldFont ELSE "default")
     /\ Len(saves) <= 3
     /\ \A k \in 1..Len(saves) :
           /\ saves[k][1] = <<"192.png", "144.png", "512.png">>[k]
           /\ (k < Len(saves) => saves[k][2])
     /\ (failedAt # "none" => pc = "exit" /\ result = "traceback")
     /\ (pc = "exit" /\ failedAt = "none" =>
           /\ result = "exit0"
           /\ Written = {1, 2, 3}
           /\ disk["192.png"].ops[3].op = "text"
           /\ disk["192.png"].ops[3].font =
                 (IF fontAvailable THEN BoldFont ELSE "default")
           /\ \A S \in {144, 512} :
                 /\ disk[FileNameOf(S)].ops = disk["192.png"].ops
                 /\ disk[FileNameOf(S)].resampled = << <<"LANCZOS", 192, 192>> >>)

C9_Witness ==
  /\ script = "procedural" /\ ~fontAvailable /\ pc = "exit"
  /\ result = "exit0"

\* C10: the loaded logo is never changed by the processing of a size, so
\* each size is computed from the original dimensions; for a source whose
\* longer edge is at least 358 the logo of 512.png is 358 on its longer edge.
C10_LogoNotMutated ==
  (script = "logo" /\ (InLoop \/ pc \in {"L_for", "L_done"})) =>
     /\ logo.width = source.width
     /\ logo.height = source.height
     /\ logo.rgb = source.rgb
     /\ (/\ size = 512 /\ pc \in {"L_white", "L_paste", "L_save", "L_print"}
         /\ Max2(source.width, source.height) >= 358
         => Max2(logo_resized.width, logo_resized.height) = 358)

C10_Witness ==
  /\ script = "logo" /\ size = 512 /\ pc = "L_print"
  /\ source.width = 401 /\ source.height = 203
  /\ logo_resized.width = 358 /\ logo.width = 401

OpaqueBlack == <<0, 0, 0, 255>>

PureWhite == <<255, 255, 255, 255>>

\* the file written by the save that has just returned
JustSaved == disk[FileNameOf(size)]

\* C6: from the 1000x1000 fully opaque source, 512.png holds a white square
\* of edge 358 pasted at (77, 77) with 77 pixels of black on every side;
\* 144.png a square of 100 with 22 pixels and 192.png a square of 134 with
\* 29 pixels of padding.
C6_Scenario ==
  (/\ script = "logo" /\ pc = "L_print"
   /\ source = Raster("RGBA", 1000, 1000, Red, "opaque")) =>
     LET edge == CASE size = 144 -> 100 [] size = 192 -> 134 [] size = 512 -> 358
         pad  == CASE size = 144 -> 22 [] size = 192 -> 29 [] size = 512 -> 77
     IN  /\ JustSaved.width = size /\ JustSaved.height = size
         /\ logo_x = pad /\ logo_y = pad
         /\ pad + edge + pad = size
         /\ \A px \in 0..(size - 1) : \A py \in 0..(size - 1) :
               IconPixel(JustSaved, px, py) =
                  IF /\ pad <= px /\ px < pad + edge
                     /\ pad <= py /\ py < pad + edge
                  THEN PureWhite ELSE OpaqueBlack

C6_Witness ==
  /\ script = "logo" /\ pc = "L_print" /\ size = 512
  /\ source = Raster("RGBA", 1000, 1000, Red, "opaque")
  /\ IconPixel(JustSaved, 77, 77) = PureWhite
  /\ IconPixel(JustSaved, 76, 77) = OpaqueBlack

\* alpha of the resized logo under the canvas pixel (px, py), -1 outside
\* the box of the pasted silhouette
AlphaUnder(px, py) ==
  IF /\ logo_x <= px /\ px < logo_x + alpha.width
     /\ logo_y <= py /\ py < logo_y + alpha.height
  THEN AlphaAt(alpha.alpha, alpha.width, alpha.height, px - logo_x, py - logo_y)
  ELSE -1

\* C7: in every icon written by the logo-based generator the outermost
\* 1-pixel frame is opaque black, the silhouette lies inside the canvas, a
\* pixel under full alpha (255) is pure white, a pixel outside the box or
\* under alpha 0 is opaque black, and no pixel carries colour of the source
\* (its red, green and blue are equal).
C7_Pixels ==
  (script = "logo" /\ pc = "L_print") =>
     /\ \A px \in 0..(size - 1) : \A py \in {0, size - 1} :
           /\ IconPixel(JustSaved, px, py) = OpaqueBlack
           /\ IconPixel(JustSaved, py, px) = OpaqueBlack
     /\ 0 <= logo_x /\ logo_x + alpha.width <= JustSaved.width
     /\ 0 <= logo_y /\ logo_y + alpha.height <= JustSaved.height
     /\ \A px \in 0..(size - 1) : \A py \in 0..(size - 1) :
           LET c == IconPixel(JustSaved, px, py)
               a == AlphaUnder(px, py)
           IN  /\ (a = 255 => c = PureWhite)
               /\ (a \in {-1, 0} => c = OpaqueBlack)
               /\ c[1] = c[2] /\ c[2] = c[3]

C7_Witness ==
  /\ script = "logo" /\ pc = "L_print" /\ size = 192
  /\ source # NoFile /\ source.alpha = "bands" /\ source.rgb = Red
  /\ \E px \in 0..(size - 1) : AlphaUnder(px, 96) = 255
  /\ \E px \in 0..(size - 1) : AlphaUnder(px, 96) = 0
  /\ \E px \in 0..(size - 1) : AlphaUnder(px, 96) = 128

====
